---- MODULE Spec2Model ----
(***************************************************************************)
(* Model of nombres_SOLUCION.py: queries over a list of Registro tuples    *)
(* (anio, nombre, frecuencia, genero).  Every query of the module is an     *)
(* action that applies the function to the loaded list `registros` with    *)
(* arguments drawn from small sets and stores what it returns.             *)
(*                                                                         *)
(* A Python str is a sequence of one-character strings, so that the test   *)
(* ' ' in n is computed on the characters.  None is the string "<None>",   *)
(* which is no gender label.                                               *)
(***************************************************************************)
EXTENDS Integers, Sequences, FiniteSets

VARIABLES registros, op, args, resultado

vars == <<registros, op, args, resultado>>

\* ------------------------------------------------------------------ bounds
MaxRegs == 3
MaxLimite == 2

\* ------------------------------------------------------------ input domains
None == "<None>"

Anios == {2002, 2003}

Generos == {"Hombre", "Mujer", "Otro"}

Filtros == {None, "Hombre", "Mujer"}

Nombres == {<<"A">>, <<"A", " ", "B">>, <<"B", " ">>}

Frecuencias == {1, 2}

Limites == (0 - 1)..MaxLimite

\* the rows a file may hold: two names under both labels in both years, and
\* a row with a third label whose name ends in a space
Registro ==
    [anio : Anios, nombre : {<<"A">>, <<"A", " ", "B">>}, frecuencia : Frecuencias,
     genero : {"Hombre", "Mujer"}]
    \cup {[anio |-> 2003, nombre |-> <<"B", " ">>, frecuencia |-> 1, genero |-> "Otro"]}

ListasDeRegistros == UNION {[1..k -> Registro] : k \in 0..MaxRegs}

\* ------------------------------------------------------- Python built-ins
RECURSIVE sum(_)
sum(s) == IF s = <<>> THEN 0 ELSE sum(SubSeq(s, 1, Len(s) - 1)) + s[Len(s)]

Min(S) == CHOOSE x \in S : \A y \in S : x <= y

RECURSIVE sorted_set(_)
sorted_set(S) == IF S = {} THEN <<>>
                 ELSE <<Min(S)>> \o sorted_set(S \ {Min(S)})

\* s[-n:] for s[:n]: the last n elements
Slice_final(s, n) ==
    IF n > 0 THEN SubSeq(s, (IF n < Len(s) THEN Len(s) - n ELSE 0) + 1, Len(s))
    ELSE s

\* s[:n] for a list s: a negative n counts from the end
Slice(s, n) ==
    IF n >= 0 THEN SubSeq(s, 1, IF n < Len(s) THEN n ELSE Len(s))
    ELSE SubSeq(s, 1, IF Len(s) + n > 0 THEN Len(s) + n ELSE 0)

\* ties put in front of their equals: a sort that is not stable
InsertDesc_inestable(s, x) ==
    LET k == Cardinality({i \in 1..Len(s) : s[i][2] > x[2]})
    IN SubSeq(s, 1, k) \o <<x>> \o SubSeq(s, k + 1, Len(s))

\* x inserted into a list already sorted by descending frequency, behind
\* every element whose frequency is >= its own (what a stable sort does)
InsertDesc(s, x) ==
    LET k == Cardinality({i \in 1..Len(s) : s[i][2] >= x[2]})
    IN SubSeq(s, 1, k) \o <<x>> \o SubSeq(s, k + 1, Len(s))

\* reverse=True left out: ascending
RECURSIVE sort_desc_ascendente(_)
sort_desc_ascendente(s) ==
    IF s = <<>> THEN <<>>
    ELSE LET r == sort_desc_ascendente(SubSeq(s, 1, Len(s) - 1))
             x == s[Len(s)]
             k == Cardinality({i \in 1..Len(r) : r[i][2] <= x[2]})
         IN SubSeq(r, 1, k) \o <<x>> \o SubSeq(r, k + 1, Len(r))

\* list.sort(key=lambda x:x[1], reverse=True)
RECURSIVE sort_desc(_)
sort_desc(s) == IF s = <<>> THEN <<>>
                ELSE InsertDesc(sort_desc(SubSeq(s, 1, Len(s) - 1)), s[Len(s)])

\* >= for >: the last maximum
RECURSIVE max_frecuencia_ultimo(_)
max_frecuencia_ultimo(s) ==
    IF Len(s) = 1 THEN s[1]
    ELSE LET m == max_frecuencia_ultimo(SubSeq(s, 1, Len(s) - 1))
         IN IF s[Len(s)].frecuencia >= m.frecuencia THEN s[Len(s)] ELSE m

\* max(s, key=lambda r:r.frecuencia) for a non-empty list: the first maximum
RECURSIVE max_frecuencia(_)
max_frecuencia(s) ==
    IF Len(s) = 1 THEN s[1]
    ELSE LET m == max_frecuencia(SubSeq(s, 1, Len(s) - 1))
         IN IF s[Len(s)].frecuencia > m.frecuencia THEN s[Len(s)] ELSE m

\* ' ' in n
ContieneEspacio(n) == \E i \in 1..Len(n) : n[i] = " "

\* --------------------------------------------------------------- queries
\* != for ==
filtrar_por_genero_distinto(regs, genero) ==
    SelectSeq(regs, LAMBDA r : r.genero # genero)

filtrar_por_genero(regs, genero) ==
    SelectSeq(regs, LAMBDA r : r.genero = genero)

\* the test on the filter inverted
calcular_nombres_invertido(regs, filtro) ==
    LET rs == IF filtro = None THEN filtrar_por_genero(regs, filtro) ELSE regs
    IN {rs[i].nombre : i \in 1..Len(rs)}

calcular_nombres(regs, filtro) ==
    LET rs == IF filtro # None THEN filtrar_por_genero(regs, filtro) ELSE regs
    IN {rs[i].nombre : i \in 1..Len(rs)}

calcular_top_nombres_de_anio(regs, anio, limite, filtro) ==
    LET rs == IF filtro # None THEN filtrar_por_genero(regs, filtro) ELSE regs
        del_anio == SelectSeq(rs, LAMBDA r : r.anio = anio)
        res == [i \in 1..Len(del_anio) |-> <<del_anio[i].nombre, del_anio[i].frecuencia>>]
    IN Slice(sort_desc(res), limite)

\* the caller's list sorted in place when no filter has made a new one
lista_tras_calcular_top_nombres_de_anio_ordenada(regs, anio, limite, filtro) ==
    IF filtro # None THEN regs
    ELSE LET pares == sort_desc([i \in 1..Len(regs) |-> <<i, regs[i].frecuencia>>])
         IN [i \in 1..Len(regs) |-> regs[pares[i][1]]]

\* the caller's list after calcular_top_nombres_de_anio: the filter and the
\* comprehension build new lists, and the sort is in place on the latter
lista_tras_calcular_top_nombres_de_anio(regs, anio, limite, filtro) == regs

calcular_nombres_ambos_generos(regs) ==
    calcular_nombres(regs, "Hombre") \cap calcular_nombres(regs, "Mujer")

calcular_nombres_compuestos(regs, filtro) ==
    {n \in calcular_nombres(regs, filtro) : ContieneEspacio(n)}

calcular_nombre_mas_frecuente_por_anio(regs, filtro) ==
    LET rs == IF filtro # None THEN filtrar_por_genero(regs, filtro) ELSE regs
        anios == sorted_set({rs[i].anio : i \in 1..Len(rs)})
    IN [k \in 1..Len(anios) |->
           LET registros_anio == SelectSeq(rs, LAMBDA r : r.anio = anios[k])
               m == max_frecuencia(registros_anio)
           IN <<anios[k], m.nombre, m.frecuencia>>]

\* the years of the loop taken from the unfiltered list
max_de_lista_vacia_sin_filtrar(regs, filtro) ==
    LET rs == IF filtro # None THEN filtrar_por_genero(regs, filtro) ELSE regs
        anios == sorted_set({regs[i].anio : i \in 1..Len(regs)})
    IN \E k \in 1..Len(anios) : SelectSeq(rs, LAMBDA r : r.anio = anios[k]) = <<>>

\* max() of an empty list raises ValueError: whether some year of the loop
\* of calcular_nombre_mas_frecuente_por_anio has no record
max_de_lista_vacia(regs, filtro) ==
    LET rs == IF filtro # None THEN filtrar_por_genero(regs, filtro) ELSE regs
        anios == sorted_set({rs[i].anio : i \in 1..Len(rs)})
    IN \E k \in 1..Len(anios) : SelectSeq(rs, LAMBDA r : r.anio = anios[k]) = <<>>

\* the years taken from the records of the name only
calcular_frecuencia_por_anio_del_nombre(regs, nombre) ==
    LET rs == SelectSeq(regs, LAMBDA r : r.nombre = nombre)
        anios == sorted_set({rs[i].anio : i \in 1..Len(rs)})
    IN [k \in 1..Len(anios) |->
           LET delnombre == SelectSeq(regs, LAMBDA r : r.anio = anios[k] /\ r.nombre = nombre)
           IN <<anios[k], sum([i \in 1..Len(delnombre) |-> delnombre[i].frecuencia])>>]

calcular_frecuencia_por_anio(regs, nombre) ==
    LET anios == sorted_set({regs[i].anio : i \in 1..Len(regs)})
    IN [k \in 1..Len(anios) |->
           LET delnombre == SelectSeq(regs, LAMBDA r : r.anio = anios[k] /\ r.nombre = nombre)
           IN <<anios[k], sum([i \in 1..Len(delnombre) |-> delnombre[i].frecuencia])>>]

\* the records counted, their frequencies not added
calcular_frecuencia_acumulada_cuenta(regs, nombre) ==
    Len(SelectSeq(regs, LAMBDA r : r.nombre = nombre))

calcular_frecuencia_acumulada(regs, nombre) ==
    LET delnombre == SelectSeq(regs, LAMBDA r : r.nombre = nombre)
    IN sum([i \in 1..Len(delnombre) |-> delnombre[i].frecuencia])

\* the names of one gender only
calcular_frecuencias_por_nombre_hombres(regs) ==
    [n \in calcular_nombres(regs, "Hombre") |-> calcular_frecuencia_acumulada(regs, n)]

\* each name given the frequency of its first record
calcular_frecuencias_por_nombre_primero(regs) ==
    [n \in calcular_nombres(regs, None) |->
        SelectSeq(regs, LAMBDA r : r.nombre = n)[1].frecuencia]

calcular_frecuencias_por_nombre(regs) ==
    [n \in calcular_nombres(regs, None) |-> calcular_frecuencia_acumulada(regs, n)]

\* the alternative body kept in the source: defaultdict(int), one pass
RECURSIVE frecuencias_una_pasada(_)
frecuencias_una_pasada(regs) ==
    IF regs = <<>> THEN <<>>
    ELSE LET d == frecuencias_una_pasada(SubSeq(regs, 1, Len(regs) - 1))
             r == regs[Len(regs)]
         IN [n \in DOMAIN d \cup {r.nombre} |->
                (IF n \in DOMAIN d THEN d[n] ELSE 0)
                + (IF n = r.nombre THEN r.frecuencia ELSE 0)]

\* ---------------------------------------------------------------- charts
\* the orders in which a set of names can iterate: the order follows the
\* hashes of the strings, which differ from one run of the interpreter to
\* the next
Ordenes(S) ==
    {o \in [1..Cardinality(S) -> S] : \A i, k \in 1..Cardinality(S) : i # k => o[i] # o[k]}

\* the frequencies taken from the whole ranking, not from the names kept
mostrar_frecuencias_nombres_sin_cortar(regs, limite, orden) ==
    LET frecuencias_nombres == calcular_frecuencias_por_nombre(regs)
        pares == sort_desc([i \in 1..Len(orden) |-> <<orden[i], frecuencias_nombres[orden[i]]>>])
        nombres == Slice([i \in 1..Len(pares) |-> pares[i][1]], limite)
    IN [nombres |-> nombres,
        frecuencias |-> [i \in 1..Len(pares) |-> pares[i][2]],
        titulo |-> <<"Frecuencia de los ", limite, " nombres mas comunes">>]

\* what plt.bar and plt.title are given; `orden` is the order in which the
\* dictionary iterates, that of the set of names it was filled from
mostrar_frecuencias_nombres(regs, limite, orden) ==
    LET frecuencias_nombres == calcular_frecuencias_por_nombre(regs)
        pares == sort_desc([i \in 1..Len(orden) |-> <<orden[i], frecuencias_nombres[orden[i]]>>])
        nombres == Slice([i \in 1..Len(pares) |-> pares[i][1]], limite)
    IN [nombres |-> nombres,
        frecuencias |-> [i \in 1..Len(nombres) |-> frecuencias_nombres[nombres[i]]],
        titulo |-> <<"Frecuencia de los ", limite, " nombres mas comunes">>]

\* ------------------------------------------------------------- the loader
\* A file is the list of rows csv.reader yields, a row a list of fields.  The
\* numeric fields are sequences of characters, which int() converts.
Digitos == <<"0", "1", "2", "3", "4", "5", "6", "7", "8", "9">>

EsDigito(c) == \E d \in 1..Len(Digitos) : Digitos[d] = c

ValorDigito(c) == (CHOOSE d \in 1..Len(Digitos) : Digitos[d] = c) - 1

\* the whitespace int() ignores around the number
RECURSIVE strip(_)
strip(s) ==
    IF s # <<>> /\ Head(s) = " " THEN strip(Tail(s))
    ELSE IF s # <<>> /\ s[Len(s)] = " " THEN strip(SubSeq(s, 1, Len(s) - 1))
    ELSE s

RECURSIVE valor_digitos(_)
valor_digitos(s) ==
    IF s = <<>> THEN 0
    ELSE 10 * valor_digitos(SubSeq(s, 1, Len(s) - 1)) + ValorDigito(s[Len(s)])

\* int(s): [ok |-> TRUE, valor |-> n], or [ok |-> FALSE] where int() raises
\* ValueError
int_py(s) ==
    LET t == strip(s)
        signo == t # <<>> /\ t[1] \in {"+", "-"}
        d == IF signo THEN Tail(t) ELSE t
    IN IF d = <<>> \/ \E i \in 1..Len(d) : ~EsDigito(d[i])
       THEN [ok |-> FALSE]
       ELSE [ok |-> TRUE,
             valor |-> IF signo /\ t[1] = "-" THEN 0 - valor_digitos(d) ELSE valor_digitos(d)]

\* Registro(int(anio), nombre, int(frecuencia), genero) for anio, nombre,
\* frecuencia, genero in lector: the unpacking needs four fields
fila_convertible(fila) ==
    /\ Len(fila) = 4
    /\ int_py(fila[1]).ok
    /\ int_py(fila[3]).ok

registro_de_fila(fila) ==
    [anio |-> int_py(fila[1]).valor, nombre |-> fila[2],
     frecuencia |-> int_py(fila[3]).valor, genero |-> fila[4]]

\* next(lector) left out: the header is converted like a data row
leer_frecuencias_nombres_con_cabecera(fichero) ==
    IF fichero = <<>> THEN [excepcion |-> "StopIteration"]
    ELSE IF \E i \in 1..Len(fichero) : ~fila_convertible(fichero[i])
         THEN [excepcion |-> "ValueError"]
         ELSE [excepcion |-> None,
               registros |-> [i \in 1..Len(fichero) |-> registro_de_fila(fichero[i])]]

\* what the call raises (None when it returns) and the list it returns
leer_frecuencias_nombres(fichero) ==
    IF fichero = <<>> THEN [excepcion |-> "StopIteration"]
    ELSE LET filas == Tail(fichero)
         IN IF \E i \in 1..Len(filas) : ~fila_convertible(filas[i])
            THEN [excepcion |-> "ValueError"]
            ELSE [excepcion |-> None,
                  registros |-> [i \in 1..Len(filas) |-> registro_de_fila(filas[i])]]

\* the files read: none or the header, then up to MaxRegs rows, well formed
\* (one with blanks around the number) or not (a field that is no number, a
\* field missing, a field too many, a blank line)
Cabecera == <<<<"A">>, <<"N">>, <<"F">>, "G">>

FilasPosibles ==
    { <<<<"2", "0", "0", "2">>, <<"A">>, <<"1">>, "Hombre">>,
      <<<<"2", "0", "0", "3">>, <<"A", " ", "B">>, <<"1", "2">>, "Mujer">>,
      <<<<"2", "0", "0", "3">>, <<"A">>, <<" ", "2", " ">>, "Mujer">>,
      <<<<"2", "0", "0", "2">>, <<"A">>, <<"x">>, "Hombre">>,
      <<<<"2", "0", "x", "2">>, <<"A">>, <<"1">>, "Hombre">>,
      <<<<"2", "0", "0", "2">>, <<"A">>, <<>>, "Hombre">>,
      <<<<"2", "0", "0", "2">>, <<"A">>, <<"1">>>>,
      <<<<"2", "0", "0", "2">>, <<"A">>, <<"1">>, "Hombre", <<>>>>,
      <<>> }

Ficheros ==
    {<<>>} \cup {<<Cabecera>> \o filas :
                    filas \in UNION {[1..k -> FilasPosibles] : k \in 0..MaxRegs}}

\* ----------------------------------------------------------------- system
Init ==
    /\ registros \in ListasDeRegistros
    /\ op = "inicio"
    /\ args = <<>>
    /\ resultado = <<>>

\* a query is called from the main program and runs to its return
Llamada(nombre_op, a, r) ==
    /\ op = "inicio"
    /\ op' = nombre_op
    /\ args' = a
    /\ resultado' = r
    /\ UNCHANGED registros

\* a query raises: the exception is not caught and ends the program
Excepcion(nombre_op, a, e) ==
    /\ op = "inicio"
    /\ op' = "abortado"
    /\ args' = [funcion |-> nombre_op, args |-> a]
    /\ resultado' = e
    /\ UNCHANGED registros

FiltrarPorGenero ==
    \E g \in Generos :
        Llamada("filtrar_por_genero", [genero |-> g], filtrar_por_genero(registros, g))

CalcularNombres ==
    \E f \in Filtros :
        Llamada("calcular_nombres", [filtro |-> f], calcular_nombres(registros, f))

CalcularTopNombresDeAnio ==
    \E a \in Anios, l \in Limites, f \in Filtros :
        /\ op = "inicio"
        /\ op' = "calcular_top_nombres_de_anio"
        /\ args' = [anio |-> a, limite |-> l, filtro |-> f]
        /\ resultado' = calcular_top_nombres_de_anio(registros, a, l, f)
        /\ registros' = lista_tras_calcular_top_nombres_de_anio(registros, a, l, f)

CalcularNombresAmbosGeneros ==
    Llamada("calcular_nombres_ambos_generos", <<>>, calcular_nombres_ambos_generos(registros))

CalcularNombresCompuestos ==
    \E f \in Filtros :
        Llamada("calcular_nombres_compuestos", [filtro |-> f],
                calcular_nombres_compuestos(registros, f))

CalcularNombreMasFrecuentePorAnio ==
    /\ op = "inicio"
    /\ \E f \in Filtros :
        IF max_de_lista_vacia(registros, f)
        THEN Excepcion("calcular_nombre_mas_frecuente_por_anio", [filtro |-> f],
                       "ValueError")
        ELSE Llamada("calcular_nombre_mas_frecuente_por_anio", [filtro |-> f],
                     calcular_nombre_mas_frecuente_por_anio(registros, f))

CalcularFrecuenciaPorAnio ==
    \E n \in Nombres :
        Llamada("calcular_frecuencia_por_anio", [nombre |-> n],
                calcular_frecuencia_por_anio(registros, n))

CalcularFrecuenciaAcumulada ==
    \E n \in Nombres :
        Llamada("calcular_frecuencia_acumulada", [nombre |-> n],
                calcular_frecuencia_acumulada(registros, n))

CalcularFrecuenciasPorNombre ==
    Llamada("calcular_frecuencias_por_nombre", <<>>, calcular_frecuencias_por_nombre(registros))

\* the caller has printed the returned value and drops it
Retornar ==
    /\ op \notin {"inicio", "arranque", "abortado"}
    /\ op' = "inicio"
    /\ args' = <<>>
    /\ resultado' = <<>>
    /\ UNCHANGED registros

Next ==
    \/ FiltrarPorGenero
    \/ CalcularNombres
    \/ CalcularTopNombresDeAnio
    \/ CalcularNombresAmbosGeneros
    \/ CalcularNombresCompuestos
    \/ CalcularNombreMasFrecuentePorAnio
    \/ CalcularFrecuenciaPorAnio
    \/ CalcularFrecuenciaAcumulada
    \/ CalcularFrecuenciasPorNombre
    \/ Retornar

Spec == Init /\ [][Next]_vars

\* the program before the file is read
InitLeer ==
    /\ registros = <<>>
    /\ op = "arranque"
    /\ args \in [fichero : Ficheros]
    /\ resultado = <<>>

\* registros = leer_frecuencias_nombres(...): an exception ends the program
Leer ==
    /\ op = "arranque"
    /\ LET r == leer_frecuencias_nombres(args.fichero)
       IN IF r.excepcion = None
          THEN /\ op' = "leer_frecuencias_nombres"
               /\ registros' = r.registros
               /\ resultado' = r.registros
          ELSE /\ op' = "abortado"
               /\ resultado' = r.excepcion
               /\ UNCHANGED registros
    /\ UNCHANGED args

NextLeer == Leer \/ Next

SpecLeer == InitLeer /\ [][NextLeer]_vars

MostrarFrecuenciasNombres ==
    \E l \in Limites, o \in Ordenes(calcular_nombres(registros, None)) :
        Llamada("mostrar_frecuencias_nombres", [limite |-> l, orden |-> o],
                mostrar_frecuencias_nombres(registros, l, o))

NextMostrar == MostrarFrecuenciasNombres \/ Retornar

SpecMostrar == Init /\ [][NextMostrar]_vars


\* ------------------------------------------------- vocabulary of the claims
Indices == 1..Len(registros)

\* the positions of the records a gender filter selects (None selects all)
Seleccionados(filtro) ==
    {j \in Indices : filtro = None \/ registros[j].genero = filtro}

RECURSIVE SumaFrecuencias(_)
SumaFrecuencias(J) ==
    IF J = {} THEN 0
    ELSE LET j == CHOOSE x \in J : TRUE
         IN registros[j].frecuencia + SumaFrecuencias(J \ {j})

RECURSIVE SumaValores(_)
SumaValores(d) ==
    IF DOMAIN d = {} THEN 0
    ELSE LET n == CHOOSE x \in DOMAIN d : TRUE
         IN d[n] + SumaValores([m \in DOMAIN d \ {n} |-> d[m]])

NoCreciente(res) ==
    \A i, k \in 1..Len(res) : i < k => res[i][2] >= res[k][2]

AniosCrecientes(res) ==
    \A i, k \in 1..Len(res) : i < k => res[i][1] < res[k][1]

\* a word on each side of a space
EsMultiPalabra(n) ==
    \E i, k, l \in 1..Len(n) : i < k /\ k < l /\ n[i] # " " /\ n[k] = " " /\ n[l] # " "

\* C1: filtrar_por_genero returns exactly the records of the asked gender,
\* each as often as in the input and in the input's order
C1_FiltroExacto ==
    op = "filtrar_por_genero" =>
        LET J == {j \in Indices : registros[j].genero = args.genero}
        IN /\ Len(resultado) = Cardinality(J)
           /\ \A i \in 1..Len(resultado) : resultado[i].genero = args.genero
           /\ \E f \in [1..Len(resultado) -> J] :
                /\ \A i, k \in 1..Len(resultado) : i < k => f[i] < f[k]
                /\ \A i \in 1..Len(resultado) : resultado[i] = registros[f[i]]

C1_Witness ==
    /\ op = "filtrar_por_genero"
    /\ Len(registros) = 3
    /\ Len(resultado) = 2
    /\ resultado[1] # resultado[2]
    /\ registros[2].genero # args.genero

\* C2: calcular_frecuencia_por_anio returns one (year, total) pair per
\* distinct year of the whole list, years strictly ascending, total the sum
\* of the frequencies of the records of that year and name, 0 when none
C2_FrecuenciaPorAnio ==
    op = "calcular_frecuencia_por_anio" =>
        /\ {resultado[i][1] : i \in 1..Len(resultado)} = {registros[j].anio : j \in Indices}
        /\ AniosCrecientes(resultado)
        /\ \A i \in 1..Len(resultado) :
             resultado[i][2] =
                 SumaFrecuencias({j \in Indices : /\ registros[j].anio = resultado[i][1]
                                                  /\ registros[j].nombre = args.nombre})

C2_Witness ==
    /\ op = "calcular_frecuencia_por_anio"
    /\ resultado = <<<<2002, 3>>, <<2003, 0>>>>
    /\ \E j, k \in Indices : /\ registros[j].nombre = args.nombre
                             /\ registros[k].nombre = args.nombre
                             /\ registros[j].genero # registros[k].genero

\* C3: calcular_frecuencia_acumulada equals the sum of the second elements
\* of calcular_frecuencia_por_anio on the same list and name
C3_AcumuladaEsSumaPorAnio ==
    op = "calcular_frecuencia_acumulada" =>
        LET por_anio == calcular_frecuencia_por_anio(registros, args.nombre)
        IN resultado = sum([i \in 1..Len(por_anio) |-> por_anio[i][2]])

C3_Witness ==
    /\ op = "calcular_frecuencia_acumulada"
    /\ resultado = 4
    /\ \E j, k \in Indices : /\ registros[j].anio # registros[k].anio
                             /\ registros[j].nombre = args.nombre
                             /\ registros[k].nombre = args.nombre
    /\ \E j \in Indices : registros[j].nombre # args.nombre

\* C4: the values of calcular_frecuencias_por_nombre add up to the sum of
\* the frequencies of all records
C4_SumaDeValores ==
    op = "calcular_frecuencias_por_nombre" =>
        SumaValores(resultado) = SumaFrecuencias(Indices)

C4_Witness ==
    /\ op = "calcular_frecuencias_por_nombre"
    /\ Len(registros) = 3
    /\ Cardinality(DOMAIN resultado) = 2
    /\ SumaValores(resultado) = 5

\* C5: calcular_frecuencias_por_nombre maps exactly the names of
\* calcular_nombres(registros), each to its calcular_frecuencia_acumulada,
\* and equals the mapping of the one-pass accumulation
C5_IgualAUnaPasada ==
    op = "calcular_frecuencias_por_nombre" =>
        /\ DOMAIN resultado = calcular_nombres(registros, None)
        /\ \A n \in DOMAIN resultado :
             resultado[n] = calcular_frecuencia_acumulada(registros, n)
        /\ resultado = frecuencias_una_pasada(registros)

C5_Witness ==
    /\ op = "calcular_frecuencias_por_nombre"
    /\ Len(registros) = 3
    /\ registros[1].nombre = registros[3].nombre
    /\ registros[1].nombre # registros[2].nombre
    /\ resultado[registros[1].nombre] = 3

\* the positions of the records of a year that a filter selects
DelAnio(anio, filtro) == {j \in Seleccionados(filtro) : registros[j].anio = anio}

\* res holds the first `cuantos` pairs of the records at the positions J put
\* in descending frequency, equal frequencies in the order of the input
PrimerosDelOrdenEstable(res, J, cuantos) ==
    \E p \in [1..Cardinality(J) -> J] :
        /\ \A i, k \in 1..Cardinality(J) :
             i < k => \/ registros[p[i]].frecuencia > registros[p[k]].frecuencia
                      \/ /\ registros[p[i]].frecuencia = registros[p[k]].frecuencia
                         /\ p[i] < p[k]
        /\ Len(res) = (IF cuantos < Cardinality(J) THEN cuantos ELSE Cardinality(J))
        /\ \A i \in 1..Len(res) :
             res[i] = <<registros[p[i]].nombre, registros[p[i]].frecuencia>>

\* the first n of a list are none when n is not positive
Cuantos(n) == IF n > 0 THEN n ELSE 0

\* C6 (as stated): for every integer limite the result of
\* calcular_top_nombres_de_anio has at most limite elements and its
\* frequencies do not increase
C6_Original ==
    op = "calcular_top_nombres_de_anio" =>
        /\ Len(resultado) <= args.limite
        /\ NoCreciente(resultado)

\* C6 (amended): the frequencies of the result of calcular_top_nombres_de_anio
\* do not increase for any integer limite, and the result has at most limite
\* elements when limite >= 0
C6_LongitudYOrden ==
    op = "calcular_top_nombres_de_anio" =>
        /\ args.limite >= 0 => Len(resultado) <= args.limite
        /\ NoCreciente(resultado)

C6_Witness ==
    /\ op = "calcular_top_nombres_de_anio"
    /\ args.limite = 2
    /\ Cardinality(DelAnio(args.anio, args.filtro)) = 3
    /\ Len(resultado) = 2
    /\ resultado[1][2] > resultado[2][2]
    /\ registros[1].frecuencia < registros[3].frecuencia

\* C7 (as stated): for every limit calcular_top_nombres_de_anio returns the
\* first limite pairs of the selected records of the year sorted by
\* descending frequency, ties in input order; all of them when fewer qualify
C7_Original ==
    op = "calcular_top_nombres_de_anio" =>
        PrimerosDelOrdenEstable(resultado, DelAnio(args.anio, args.filtro),
                                Cuantos(args.limite))

\* C7 (amended): for every limit >= 0 calcular_top_nombres_de_anio returns
\* the first limite pairs of the selected records of the year sorted by
\* descending frequency, ties in input order; all of them when fewer qualify
C7_PrimerosEstables ==
    (op = "calcular_top_nombres_de_anio" /\ args.limite >= 0) =>
        PrimerosDelOrdenEstable(resultado, DelAnio(args.anio, args.filtro), args.limite)

C7_Witness ==
    /\ op = "calcular_top_nombres_de_anio"
    /\ args.limite = 2
    /\ args.filtro = "Hombre"
    /\ Cardinality(DelAnio(args.anio, args.filtro)) = 3
    /\ registros[1].frecuencia < registros[2].frecuencia
    /\ resultado[1][2] = resultado[2][2]
    /\ resultado[1][1] # resultado[2][1]

\* C8: calcular_nombre_mas_frecuente_por_anio returns one triple per distinct
\* year of the selected records, years strictly ascending, with the maximum
\* frequency of the year and the name of the first record that attains it
C8_MasFrecuentePorAnio ==
    op = "calcular_nombre_mas_frecuente_por_anio" =>
        LET S == Seleccionados(args.filtro)
        IN /\ {resultado[i][1] : i \in 1..Len(resultado)} = {registros[j].anio : j \in S}
           /\ AniosCrecientes(resultado)
           /\ \A i \in 1..Len(resultado) :
                LET J == DelAnio(resultado[i][1], args.filtro)
                IN \E j \in J :
                     /\ \A k \in J : registros[k].frecuencia <= registros[j].frecuencia
                     /\ \A k \in J : registros[k].frecuencia = registros[j].frecuencia => j <= k
                     /\ resultado[i][2] = registros[j].nombre
                     /\ resultado[i][3] = registros[j].frecuencia

C8_Witness ==
    /\ op = "calcular_nombre_mas_frecuente_por_anio"
    /\ args.filtro = "Mujer"
    /\ Len(resultado) = 1
    /\ Len(registros) = 3
    /\ registros[1].anio # registros[2].anio
    /\ registros[2].anio = registros[3].anio
    /\ registros[2].frecuencia = registros[3].frecuencia
    /\ registros[2].nombre # registros[3].nombre
    /\ registros[2].genero = "Mujer" /\ registros[3].genero = "Mujer"
    /\ resultado[1][2] = registros[2].nombre

\* C9: calcular_nombres(registros) contains the names of 'Hombre' and those
\* of 'Mujer', and is their union when every name of the list has a record
\* of one of these two genders
C9_NombresSuperconjunto ==
    (op = "calcular_nombres" /\ args.filtro = None) =>
        LET union == calcular_nombres(registros, "Hombre")
                         \cup calcular_nombres(registros, "Mujer")
        IN /\ union \subseteq resultado
           /\ (\A j \in Indices : \E k \in Indices :
                   /\ registros[k].nombre = registros[j].nombre
                   /\ registros[k].genero \in {"Hombre", "Mujer"})
              => resultado = union

C9_Witness ==
    /\ op = "calcular_nombres"
    /\ args.filtro = None
    /\ calcular_nombres(registros, "Hombre") # {}
    /\ calcular_nombres(registros, "Mujer") # {}
    /\ calcular_nombres(registros, "Hombre") # calcular_nombres(registros, "Mujer")
    /\ resultado = calcular_nombres(registros, "Hombre") \cup calcular_nombres(registros, "Mujer")

\* C10: calcular_nombres_compuestos returns exactly the names of
\* calcular_nombres(registros, filtro) that have more than one word; no name
\* without a space is in it, and with a filter it is a subset of the result
\* without filter
C10_SoloMultiPalabra ==
    op = "calcular_nombres_compuestos" =>
        /\ resultado = {n \in {registros[j].nombre : j \in Seleccionados(args.filtro)} :
                           EsMultiPalabra(n)}
        /\ \A n \in resultado : \E i \in 1..Len(n) : n[i] = " "
        /\ resultado \subseteq calcular_nombres_compuestos(registros, None)

\* a field that is a base-10 integer, blanks around it allowed: the positions
\* a..b hold an optional sign and then digits only, the others blanks
EsNumero(c, a, b) ==
    /\ 1 <= a /\ a <= b /\ b <= Len(c)
    /\ \A i \in 1..Len(c) : (i < a \/ i > b) => c[i] = " "
    /\ \/ \A i \in a..b : EsDigito(c[i])
       \/ a < b /\ c[a] \in {"+", "-"} /\ \A i \in (a + 1)..b : EsDigito(c[i])

EsNumerico(c) == \E a, b \in 1..Len(c) : EsNumero(c, a, b)

RECURSIVE Potencia10(_)
Potencia10(n) == IF n = 0 THEN 1 ELSE 10 * Potencia10(n - 1)

RECURSIVE SumaPosicional(_, _, _)
SumaPosicional(c, a, b) ==
    IF a > b THEN 0
    ELSE ValorDigito(c[a]) * Potencia10(b - a) + SumaPosicional(c, a + 1, b)

\* the integer a numeric field denotes
Entero(c) ==
    LET ab == CHOOSE ab \in (1..Len(c)) \X (1..Len(c)) : EsNumero(c, ab[1], ab[2])
    IN IF c[ab[1]] = "-" THEN 0 - SumaPosicional(c, ab[1] + 1, ab[2])
       ELSE IF c[ab[1]] = "+" THEN SumaPosicional(c, ab[1] + 1, ab[2])
       ELSE SumaPosicional(c, ab[1], ab[2])

FilaBienFormada(fila) ==
    Len(fila) = 4 /\ EsNumerico(fila[1]) /\ EsNumerico(fila[3])

\* C11: leer_frecuencias_nombres skips the header and returns one record per
\* following row, in file order, year and frequency as integers; when a data
\* row has a field that is no number where one is due, or not exactly four
\* fields, the call raises (ValueError) and no list is returned
C11_Lectura ==
    LET f == args.fichero
    IN /\ op = "leer_frecuencias_nombres" =>
            /\ \A i \in 2..Len(f) : FilaBienFormada(f[i])
            /\ Len(resultado) = Len(f) - 1
            /\ \A i \in 1..Len(resultado) :
                 resultado[i] = [anio |-> Entero(f[i + 1][1]), nombre |-> f[i + 1][2],
                                 frecuencia |-> Entero(f[i + 1][3]), genero |-> f[i + 1][4]]
            /\ registros = resultado
       /\ (op = "abortado" /\ f # <<>>) =>
            /\ \E i \in 2..Len(f) : ~FilaBienFormada(f[i])
            /\ resultado = "ValueError"
            /\ registros = <<>>

C11_Witness ==
    /\ op = "leer_frecuencias_nombres"
    /\ Len(args.fichero) = 3
    /\ resultado[1].anio = 2003 /\ resultado[1].frecuencia = 12
    /\ resultado[2].anio = 2003 /\ resultado[2].frecuencia = 2

\* C12: no query ends in an exception, and what is asked of an empty list, or
\* for a name, year or gender that has no record, gets the empty answer:
\* the empty list or set, the sum 0, zero sums for every year
C12_VacioSinError ==
    /\ op # "abortado"
    /\ (op = "filtrar_por_genero" /\ \A j \in Indices : registros[j].genero # args.genero)
           => resultado = <<>>
    /\ (op = "calcular_nombres" /\ Seleccionados(args.filtro) = {}) => resultado = {}
    /\ (op = "calcular_nombres_compuestos" /\ Seleccionados(args.filtro) = {})
           => resultado = {}
    /\ (op = "calcular_top_nombres_de_anio" /\ DelAnio(args.anio, args.filtro) = {})
           => resultado = <<>>
    /\ (op = "calcular_nombre_mas_frecuente_por_anio" /\ Seleccionados(args.filtro) = {})
           => resultado = <<>>
    /\ (op = "calcular_frecuencia_por_anio" /\ \A j \in Indices : registros[j].nombre # args.nombre)
           => \A i \in 1..Len(resultado) : resultado[i][2] = 0
    /\ (op = "calcular_frecuencia_acumulada" /\ \A j \in Indices : registros[j].nombre # args.nombre)
           => resultado = 0

C12_Witness ==
    /\ op = "calcular_nombre_mas_frecuente_por_anio"
    /\ args.filtro = "Hombre"
    /\ Len(registros) = 3
    /\ registros[1].anio # registros[2].anio
    /\ Seleccionados("Hombre") = {}
    /\ resultado = <<>>

\* what the bar chart is given, but for the order of equal frequencies:
\* parallel lists of distinct names with their cumulative frequencies, in
\* descending order, no name left out above the last one kept
SerieDeLosMasFrecuentes(serie) ==
    LET d == calcular_frecuencias_por_nombre(registros)
        ns == serie.nombres
        fs == serie.frecuencias
    IN /\ Len(ns) = Len(fs)
       /\ \A i, k \in 1..Len(ns) : i # k => ns[i] # ns[k]
       /\ \A i \in 1..Len(ns) : ns[i] \in DOMAIN d /\ fs[i] = d[ns[i]]
       /\ \A i, k \in 1..Len(fs) : i < k => fs[i] >= fs[k]
       /\ \A m \in DOMAIN d :
            (Len(ns) > 0 /\ \A i \in 1..Len(ns) : ns[i] # m) => d[m] <= fs[Len(fs)]

MinimoDe(a, b) == IF a < b THEN a ELSE b

\* C13 (as stated): for every limit mostrar_frecuencias_nombres gives the bar
\* chart parallel lists of min(limite, number of names) distinct names and
\* their cumulative frequencies, in descending order, the names left out no
\* more frequent than the last kept, and the dataset fixes the order of ties
C13_Original ==
    op = "mostrar_frecuencias_nombres" =>
        /\ SerieDeLosMasFrecuentes(resultado)
        /\ Len(resultado.nombres)
               = MinimoDe(args.limite, Cardinality(calcular_nombres(registros, None)))
        /\ \A o \in Ordenes(calcular_nombres(registros, None)) :
             mostrar_frecuencias_nombres(registros, args.limite, o).nombres
                 = resultado.nombres

\* C13 (amended): mostrar_frecuencias_nombres gives the bar chart parallel
\* lists of distinct names and their cumulative frequencies, in descending
\* order, the names left out no more frequent than the last kept; there are
\* min(limite, number of names) of them when limite >= 0; names of equal
\* frequency come in the order in which the dictionary iterates
C13_Serie ==
    op = "mostrar_frecuencias_nombres" =>
        /\ SerieDeLosMasFrecuentes(resultado)
        /\ args.limite >= 0 =>
             Len(resultado.nombres)
                 = MinimoDe(args.limite, Cardinality(calcular_nombres(registros, None)))
        /\ \A i, k \in 1..Len(resultado.nombres) :
             (i < k /\ resultado.frecuencias[i] = resultado.frecuencias[k]) =>
                 \E a, b \in 1..Len(args.orden) :
                     /\ a < b
                     /\ args.orden[a] = resultado.nombres[i]
                     /\ args.orden[b] = resultado.nombres[k]

C13_Witness ==
    /\ op = "mostrar_frecuencias_nombres"
    /\ args.limite = 2
    /\ Len(args.orden) = 3
    /\ Len(resultado.nombres) = 2
    /\ resultado.frecuencias = <<2, 1>>
    /\ args.orden[3] = resultado.nombres[1]

\* what the query of the state returns when it is run on the list regs
Consulta(nombre_op, a, regs) ==
    CASE nombre_op = "filtrar_por_genero" -> filtrar_por_genero(regs, a.genero)
      [] nombre_op = "calcular_nombres" -> calcular_nombres(regs, a.filtro)
      [] nombre_op = "calcular_top_nombres_de_anio" ->
             calcular_top_nombres_de_anio(regs, a.anio, a.limite, a.filtro)
      [] nombre_op = "calcular_nombres_ambos_generos" -> calcular_nombres_ambos_generos(regs)
      [] nombre_op = "calcular_nombres_compuestos" -> calcular_nombres_compuestos(regs, a.filtro)
      [] nombre_op = "calcular_nombre_mas_frecuente_por_anio" ->
             calcular_nombre_mas_frecuente_por_anio(regs, a.filtro)
      [] nombre_op = "calcular_frecuencia_por_anio" -> calcular_frecuencia_por_anio(regs, a.nombre)
      [] nombre_op = "calcular_frecuencia_acumulada" ->
             calcular_frecuencia_acumulada(regs, a.nombre)
      [] nombre_op = "calcular_frecuencias_por_nombre" -> calcular_frecuencias_por_nombre(regs)

C15_GanadorDelAnio ==
    op = "calcular_nombre_mas_frecuente_por_anio" =>
        \A i \in 1..Len(resultado) :
            calcular_top_nombres_de_anio(registros, resultado[i][1], 1, args.filtro)
                = <<<<resultado[i][2], resultado[i][3]>>>>

C15_Witness ==
    /\ op = "calcular_nombre_mas_frecuente_por_anio"
    /\ args.filtro = None
    /\ Len(resultado) = 2
    /\ Len(registros) = 3
    /\ registros[1].anio = registros[3].anio
    /\ registros[1].frecuencia = registros[3].frecuencia
    /\ registros[1].frecuencia = 2
    /\ registros[1].nombre # registros[3].nombre
    /\ \E i \in 1..2 : resultado[i] = <<registros[1].anio, registros[1].nombre, 2>>
====
